---------------------------- MODULE Spec2Model ----------------------------
(***************************************************************************)
(* Model of the "Shop the Look" quick-view popup widget.                   *)
(*                                                                         *)
(* The repository holds two implementations of the same widget:            *)
(*   "closure"  src/assets/product-grid-popup.js  (module closure)         *)
(*   "class"    src/unnamed/part_000              (class ProductGridPopup) *)
(* The variable impl says which of the two is running; every handler is    *)
(* translated once per implementation and the actions dispatch on impl.    *)
(*                                                                         *)
(* Strings that the code inspects character by character (option values,   *)
(* money templates, formatted prices) are sequences of one-character       *)
(* strings.  A JavaScript null/undefined is the empty sequence Null and a  *)
(* present object x is the one-element sequence Some(x).                   *)
(*                                                                         *)
(* Product.options is the ordered list of option names; the closure        *)
(* implementation reads the entries themselves, the class implementation   *)
(* reads entry.name.                                                       *)
(***************************************************************************)
EXTENDS Integers, Sequences, FiniteSets, TLC

VARIABLES
    impl,            \* "closure" or "class": which implementation runs
    shown,           \* popup visible (aria-hidden="false" / class "active")
    title,           \* text of the title slot
    currentProduct,  \* Null or Some(product)
    selectedVariant, \* Null or Some(variant)
    selections,      \* option name -> chosen value
    pickers,         \* the picker controls in the DOM: set of <<name, value>>
    elVarId,         \* value of the hidden variant-id field
    elPrice,         \* text of the price slot
    elImg,           \* src of the image slot
    atcDisabled,     \* submit control disabled
    atcLabel,        \* innerHTML of the submit control
    fetches,         \* product fetches in flight, in start order
    flows,           \* add-to-cart flows: slot -> flow record
    timers,          \* pending setTimeout callbacks, in start order
    moneyFormat,     \* Null or Some(template): the theme's money format
    userEvents,      \* user events handled so far
    lastEvent,       \* the callback that ran last
    replay           \* the script of a run taken by both implementations

vars == <<impl, shown, title, currentProduct, selectedVariant, selections,
          pickers, elVarId, elPrice, elImg, atcDisabled, atcLabel,
          fetches, flows, timers, moneyFormat, userEvents, lastEvent,
          replay>>

-----------------------------------------------------------------------------
(* Bounds *)

\* product fetches that may be in flight at the same time
MaxOpens == 2
\* add-to-cart flows that may be alive at the same time
MaxFlows == 2
\* user events (hotspot click, close, pick, submit) of one page visit
MaxUserEvents == 4

-----------------------------------------------------------------------------
(* Optional values and character strings *)

Null == <<>>
Some(x) == <<x>>
Val(o) == o[1]

UpperChars == <<"A","B","C","D","E","F","G","H","I","J","K","L","M",
                "N","O","P","Q","R","S","T","U","V","W","X","Y","Z">>
LowerChars == <<"a","b","c","d","e","f","g","h","i","j","k","l","m",
                "n","o","p","q","r","s","t","u","v","w","x","y","z">>

LowerChar(c) ==
    IF \E i \in 1..26 : UpperChars[i] = c
    THEN LowerChars[CHOOSE i \in 1..26 : UpperChars[i] = c]
    ELSE c

\* String.prototype.toLowerCase
toLowerCase(s) == [i \in 1..Len(s) |-> LowerChar(s[i])]

IsSpace(c) == c = " "

RECURSIVE TrimStart(_)
TrimStart(s) ==
    IF s # <<>> /\ IsSpace(Head(s)) THEN TrimStart(Tail(s)) ELSE s

RECURSIVE TrimEnd(_)
TrimEnd(s) ==
    IF s # <<>> /\ IsSpace(s[Len(s)])
    THEN TrimEnd(SubSeq(s, 1, Len(s) - 1))
    ELSE s

\* String.prototype.trim
trim(s) == TrimEnd(TrimStart(s))

\* the two literals of the bundle rule
BlackLit  == <<"b","l","a","c","k">>
MediumLit == <<"m","e","d","i","u","m">>

-----------------------------------------------------------------------------
(* Product data served by the storefront *)

VWhite     == <<"W","h","i","t","e">>
VBlack     == <<"B","l","a","c","k">>
VSmall     == <<"S","m","a","l","l">>
VMedium    == <<"M","e","d","i","u","m">>
VBlackPad  == <<" ","B","L","A","C","K">>
VMediumPad == <<"m","e","d","i","u","m"," ">>
VDefault   == <<"D","e","f","a","u","l","t">>

\* A variant's featured_image is Null, a URL string, or an object holding the
\* URL in its src field.
ImageUrl(url) == Some([isObject |-> FALSE, url |-> url])
ImageObject(url) == Some([isObject |-> TRUE, url |-> url])

Variant(id, price, o1, o2, img) ==
    [id |-> id, price |-> price, option1 |-> o1, option2 |-> o2,
     option3 |-> Null, featured_image |-> img]

\* "tee": Color x Size without the combination Black/Small.
\* "cap": values in other casing and padding; no Black/Medium variant.
\* "mug": the default single-variant product.
Catalog ==
    [h \in {"tee", "cap", "mug"} |->
        CASE h = "tee" ->
               [handle |-> "tee", title |-> "Tee", price |-> 1999,
                featured_image |-> Some("tee.jpg"),
                options |-> <<"Color", "Size">>,
                variants |-> <<
                    Variant(11, 1999, Some(VWhite), Some(VSmall), Null),
                    Variant(12, 2499, Some(VBlack), Some(VMedium), ImageObject("tee-black.jpg")),
                    Variant(13, 1999, Some(VWhite), Some(VMedium), Null) >>]
          [] h = "cap" ->
               [handle |-> "cap", title |-> "Cap", price |-> 100050,
                featured_image |-> Some("cap.jpg"),
                options |-> <<"Color", "Size">>,
                variants |-> <<
                    Variant(21, 123456, Some(VWhite), Some(VMediumPad), Null),
                    Variant(22, 100050, Some(VBlackPad), Some(VSmall), ImageUrl("cap-black.jpg")) >>]
          [] h = "mug" ->
               [handle |-> "mug", title |-> "Mug", price |-> 100,
                featured_image |-> Null,
                options |-> <<"Title">>,
                variants |-> <<
                    Variant(31, 100, Some(VDefault), Null, Null) >>]]

Handles == DOMAIN Catalog

\* every option value of the catalog
PickerValues ==
    {VWhite, VBlack, VSmall, VMedium, VBlackPad, VMediumPad, VDefault}

\* every price of the catalog
Prices ==
    {Catalog[h].price : h \in Handles} \cup
    UNION {{Catalog[h].variants[i].price : i \in 1..Len(Catalog[h].variants)} :
              h \in Handles}

\* the money templates the theme may declare; Null: it declares none
MoneyFormats == {Null}

\* id of the first variant of the product "soft-winter-jacket"
JacketVariantId == 99

-----------------------------------------------------------------------------
(* Money formatting *)

Digits == <<"0","1","2","3","4","5","6","7","8","9">>

IsDigit(c) == \E d \in 1..10 : Digits[d] = c

\* \w of the placeholder pattern: letters, digits and underscore
IsWordChar(c) ==
    \/ IsDigit(c)
    \/ c = "_"
    \/ \E i \in 1..26 : UpperChars[i] = c \/ LowerChars[i] = c

\* decimal digits of a natural number
RECURSIVE NatToString(_)
NatToString(n) ==
    IF n < 10 THEN <<Digits[n + 1]>>
    ELSE NatToString(n \div 10) \o <<Digits[(n % 10) + 1]>>

\* (num / 100).toFixed(precision) for a whole number of minor units; the
\* code calls it with precision 0 (round half up) and 2 (exact) only
toFixed(num, precision) ==
    IF precision = 0
    THEN NatToString((num + 50) \div 100)
    ELSE NatToString(num \div 100) \o <<".">>
         \o <<Digits[((num % 100) \div 10) + 1], Digits[(num % 10) + 1]>>

\* fixed.split('.')
SplitAtDot(s) ==
    IF \E i \in 1..Len(s) : s[i] = "."
    THEN LET i == CHOOSE k \in 1..Len(s) : s[k] = "."
         IN  <<SubSeq(s, 1, i - 1), SubSeq(s, i + 1, Len(s))>>
    ELSE <<s>>

\* left.replace(/(\d)(?=(\d{3})+(?!\d))/g, '$1' + thousands) on a digit
\* string: the separator goes after every digit that is followed by a
\* positive multiple of three digits
RECURSIVE GroupThousands(_, _)
GroupThousands(digits, thousands) ==
    IF Len(digits) <= 3 THEN digits
    ELSE GroupThousands(SubSeq(digits, 1, Len(digits) - 3), thousands)
         \o thousands
         \o SubSeq(digits, Len(digits) - 2, Len(digits))

\* delimit of the closure implementation; an omitted argument is Null
delimit(num, precision, thousands, decimal) ==
    LET prec  == IF precision = Null THEN 2 ELSE Val(precision)
        thou  == IF thousands = Null THEN <<",">> ELSE Val(thousands)
        dec   == IF decimal = Null THEN <<".">> ELSE Val(decimal)
        parts == SplitAtDot(toFixed(num, prec))
        left  == GroupThousands(parts[1], thou)
    IN  IF Len(parts) > 1 /\ parts[2] # <<>>
        THEN left \o dec \o parts[2]
        ELSE left

\* formatWithDelimiters of the class implementation: precision || 2 turns
\* a precision of 0 into 2
formatWithDelimiters(number, precision, thousands, decimal) ==
    LET prec  == IF precision = Null \/ Val(precision) = 0
                 THEN 2 ELSE Val(precision)
        thou  == IF thousands = Null THEN <<",">> ELSE Val(thousands)
        dec   == IF decimal = Null THEN <<".">> ELSE Val(decimal)
        parts == SplitAtDot(toFixed(number, prec))
        dollarsAmount == GroupThousands(parts[1], thou)
        centsAmount   == IF Len(parts) > 1 /\ parts[2] # <<>>
                         THEN dec \o parts[2] ELSE <<>>
    IN  dollarsAmount \o centsAmount

\* index of the first character at or after i that is not a space
RECURSIVE SkipSpaces(_, _)
SkipSpaces(s, i) ==
    IF i <= Len(s) /\ IsSpace(s[i]) THEN SkipSpaces(s, i + 1) ELSE i

\* index of the first character at or after i that is not a word character
RECURSIVE SkipWord(_, _)
SkipWord(s, i) ==
    IF i <= Len(s) /\ IsWordChar(s[i]) THEN SkipWord(s, i + 1) ELSE i

\* /\{\{\s*(\w+)\s*\}\}/ anchored at position i: Null, or
\* Some([first, last, key]) with the matched range and capture group 1
PlaceholderAt(s, i) ==
    IF ~(i + 1 <= Len(s) /\ s[i] = "{" /\ s[i + 1] = "{") THEN Null
    ELSE LET j == SkipSpaces(s, i + 2)
             k == SkipWord(s, j)
             l == SkipSpaces(s, k)
         IN  IF k > j /\ l + 1 <= Len(s) /\ s[l] = "}" /\ s[l + 1] = "}"
             THEN Some([first |-> i, last |-> l + 1,
                        key |-> SubSeq(s, j, k - 1)])
             ELSE Null

\* fmt.match(placeholder): the leftmost match at or after i, or Null
RECURSIVE PlaceholderFrom(_, _)
PlaceholderFrom(s, i) ==
    IF i > Len(s) THEN Null
    ELSE IF PlaceholderAt(s, i) # Null THEN PlaceholderAt(s, i)
    ELSE PlaceholderFrom(s, i + 1)

placeholder(s) == PlaceholderFrom(s, 1)

\* fmt.replace(placeholder, value)
ReplacePlaceholder(s, value) ==
    LET m == placeholder(s)
    IN  IF m = Null THEN s
        ELSE SubSeq(s, 1, Val(m).first - 1) \o value
             \o SubSeq(s, Val(m).last + 1, Len(s))

KeyAmount ==
    <<"a","m","o","u","n","t">>
KeyAmountNoDecimals ==
    <<"a","m","o","u","n","t","_","n","o","_","d","e","c","i","m","a","l","s">>
KeyAmountWithCommaSeparator ==
    <<"a","m","o","u","n","t","_","w","i","t","h","_","c","o","m","m","a","_","s","e","p","a","r","a","t","o","r">>
KeyAmountNoDecimalsWithCommaSeparator ==
    <<"a","m","o","u","n","t","_","n","o","_","d","e","c","i","m","a","l","s","_","w","i","t","h","_","c","o","m","m","a","_","s","e","p","a","r","a","t","o","r">>
KeyAmountNoDecimalsWithSpaceSeparator ==
    <<"a","m","o","u","n","t","_","n","o","_","d","e","c","i","m","a","l","s","_","w","i","t","h","_","s","p","a","c","e","_","s","e","p","a","r","a","t","o","r">>

\* '${{amount}}', the template used when the theme declares none
DefaultMoneyFormat ==
    <<"$","{","{","a","m","o","u","n","t","}","}">>

\* formatMoney of the closure implementation under template setting fmt0
\* (Null when neither window.theme nor window.Theme declares a template).
\* The result is [threw, text].
formatMoney(cents, fmt0) ==
    LET fmt   == IF fmt0 = Null \/ Val(fmt0) = <<>>
                 THEN DefaultMoneyFormat ELSE Val(fmt0)
        m     == placeholder(fmt)
        key   == IF m = Null THEN KeyAmount ELSE Val(m).key
        value ==
            CASE key = KeyAmount -> delimit(cents, Some(2), Null, Null)
              [] key = KeyAmountNoDecimals -> delimit(cents, Some(0), Null, Null)
              [] key = KeyAmountWithCommaSeparator ->
                     delimit(cents, Some(2), Some(<<".">>), Some(<<",">>))
              [] key = KeyAmountNoDecimalsWithCommaSeparator ->
                     delimit(cents, Some(0), Some(<<".">>), Some(<<",">>))
              [] key = KeyAmountNoDecimalsWithSpaceSeparator ->
                     delimit(cents, Some(0), Some(<<" ">>), Null)
              [] OTHER -> delimit(cents, Some(2), Null, Null)
    IN  [threw |-> FALSE, text |-> ReplacePlaceholder(fmt, value)]

\* formatMoney of the class implementation: match(...)[1] throws a
\* TypeError when the template holds no placeholder
formatMoneyClass(cents, fmt0) ==
    LET formatString == IF fmt0 = Null \/ Val(fmt0) = <<>>
                        THEN DefaultMoneyFormat ELSE Val(fmt0)
        m     == placeholder(formatString)
        key   == Val(m).key
        value ==
            CASE key = KeyAmount ->
                     formatWithDelimiters(cents, Some(2), Null, Null)
              [] key = KeyAmountNoDecimals ->
                     formatWithDelimiters(cents, Some(0), Null, Null)
              [] key = KeyAmountWithCommaSeparator ->
                     formatWithDelimiters(cents, Some(2), Some(<<".">>), Some(<<",">>))
              [] key = KeyAmountNoDecimalsWithCommaSeparator ->
                     formatWithDelimiters(cents, Some(0), Some(<<".">>), Some(<<",">>))
              [] key = KeyAmountNoDecimalsWithSpaceSeparator ->
                     formatWithDelimiters(cents, Some(0), Some(<<" ">>), Null)
              [] OTHER -> formatWithDelimiters(cents, Some(2), Null, Null)
    IN  IF m = Null THEN [threw |-> TRUE, text |-> <<>>]
        ELSE [threw |-> FALSE, text |-> ReplacePlaceholder(formatString, value)]


\* formatMoney and formatMoneyClass of every price under every template,
\* computed once
FormatMoneyTable ==
    [c \in Prices, f \in MoneyFormats |-> formatMoney(c, f)]

FormatMoneyClassTable ==
    [c \in Prices, f \in MoneyFormats |-> formatMoneyClass(c, f)]

-----------------------------------------------------------------------------
(* Variant pickers *)

EmptySel == [n \in {} |-> <<>>]

\* v['option' + position]
OptionAt(v, position) ==
    CASE position = 1 -> v.option1
      [] position = 2 -> v.option2
      [] position = 3 -> v.option3
      [] OTHER -> Null

\* a value that passes the test `if (val && ...)`
Truthy(o) == o # Null /\ Val(o) # <<>>

RECURSIVE UniqueValuesFrom(_, _, _, _)
UniqueValuesFrom(variants, position, i, seen) ==
    IF i > Len(variants) THEN seen
    ELSE LET val == OptionAt(variants[i], position)
         IN  IF Truthy(val) /\ ~(\E k \in 1..Len(seen) : seen[k] = Val(val))
             THEN UniqueValuesFrom(variants, position, i + 1,
                                   Append(seen, Val(val)))
             ELSE UniqueValuesFrom(variants, position, i + 1, seen)

\* the distinct values of the option at a 1-based position, in variant order
getUniqueOptionValues(product, position) ==
    UniqueValuesFrom(product.variants, position, 1, <<>>)

\* getOptionValues of the class implementation
getOptionValues(product, position) ==
    UniqueValuesFrom(product.variants, position, 1, <<>>)

\* selections[name] = val
SetSelection(sel, name, val) ==
    [n \in (DOMAIN sel) \cup {name} |-> IF n = name THEN val ELSE sel[n]]

\* the forEach over product.options from index idx on: every option with
\* at least one value gets one control per value and its first value
\* becomes the selection.  r is [selections, pickers].
RECURSIVE RenderFrom(_, _, _)
RenderFrom(product, idx, r) ==
    IF idx > Len(product.options) THEN r
    ELSE LET name   == product.options[idx]
             values == getUniqueOptionValues(product, idx)
         IN  IF Len(values) = 0 THEN RenderFrom(product, idx + 1, r)
             ELSE RenderFrom(product, idx + 1,
                    [selections |-> SetSelection(r.selections, name, values[1]),
                     pickers |-> r.pickers \cup
                          {<<name, values[k]>> : k \in 1..Len(values)}])

\* renderVariantSelectors of the closure implementation: the container is
\* emptied, then the pickers are built unless the product has no
\* meaningful option.  The selection state is written to, never cleared.
renderVariantSelectors(product, sel) ==
    IF \/ Len(product.options) = 0
       \/ (Len(product.options) = 1 /\ product.options[1] = "Title")
    THEN [selections |-> sel, pickers |-> {}]
    ELSE RenderFrom(product, 1, [selections |-> sel, pickers |-> {}])

\* renderVariants of the class implementation
renderVariants(product, sel) ==
    IF \/ Len(product.options) = 0
       \/ (Len(product.options) = 1 /\ product.options[1] = "Title")
    THEN [selections |-> sel, pickers |-> {}]
    ELSE RenderFrom(product, 1, [selections |-> sel, pickers |-> {}])

-----------------------------------------------------------------------------
(* Variant resolution *)

\* currentProduct.options.indexOf(optName), 1-based; 0 when absent
IndexOf(options, optName) ==
    IF \E i \in 1..Len(options) : options[i] = optName
    THEN CHOOSE i \in 1..Len(options) :
            /\ options[i] = optName
            /\ \A j \in 1..(i - 1) : options[j] # optName
    ELSE 0

\* the callback of Object.keys(selections).every(...)
VariantMatches(product, sel, v) ==
    \A optName \in DOMAIN sel :
        LET idx == IndexOf(product.options, optName)
        IN  \/ idx = 0
            \/ OptionAt(v, idx) = Some(sel[optName])

\* a find that returns the last matching variant instead of the first
FindVariantLast(product, sel) ==
    IF \E i \in 1..Len(product.variants) :
            VariantMatches(product, sel, product.variants[i])
    THEN Some(product.variants[
            CHOOSE i \in 1..Len(product.variants) :
                /\ VariantMatches(product, sel, product.variants[i])
                /\ \A j \in (i + 1)..Len(product.variants) :
                      ~VariantMatches(product, sel, product.variants[j])])
    ELSE Null

\* currentProduct.variants.find(...): Null, or Some(first matching variant)
FindVariant(product, sel) ==
    IF \E i \in 1..Len(product.variants) :
            VariantMatches(product, sel, product.variants[i])
    THEN Some(product.variants[
            CHOOSE i \in 1..Len(product.variants) :
                /\ VariantMatches(product, sel, product.variants[i])
                /\ \A j \in 1..(i - 1) :
                      ~VariantMatches(product, sel, product.variants[j])])
    ELSE Null

\* match.featured_image.src
ImageSrc(img) == IF Val(img).isObject THEN Val(img).url ELSE "undefined"

\* a resolver that never moves the selected variant
resolveVariantNever(w) == w

\* resolveVariant of the closure implementation.  w is the record of the
\* fields it reads and writes; the result is w after the call.
resolveVariant(w) ==
    IF w.currentProduct = Null THEN w
    ELSE LET match == FindVariant(Val(w.currentProduct), w.selections)
         IN  IF match = Null THEN w
             ELSE [w EXCEPT
                     !.selectedVariant = match,
                     !.elVarId = Val(match).id,
                     !.elPrice = FormatMoneyTable[Val(match).price, w.moneyFormat].text,
                     !.elImg = IF Val(match).featured_image # Null
                               THEN ImageSrc(Val(match).featured_image)
                               ELSE @]

\* a resolver that falls back to the first variant when no variant matches
updateSelectedVariantOrFirst(w) ==
    IF w.currentProduct = Null THEN w
    ELSE LET found   == FindVariant(Val(w.currentProduct), w.selections)
             variant == IF found = Null
                        THEN Some(Val(w.currentProduct).variants[1]) ELSE found
         IN  [w EXCEPT
                !.selectedVariant = variant,
                !.elVarId = Val(variant).id,
                !.elPrice = FormatMoneyClassTable[Val(variant).price, w.moneyFormat].text]

\* updateSelectedVariant of the class implementation.  A formatMoney that
\* throws leaves the price and the image as they were.
updateSelectedVariant(w) ==
    IF w.currentProduct = Null THEN w
    ELSE LET variant == FindVariant(Val(w.currentProduct), w.selections)
             money   == FormatMoneyClassTable[Val(variant).price, w.moneyFormat]
         IN  IF variant = Null THEN w
             ELSE IF money.threw
             THEN [w EXCEPT !.selectedVariant = variant,
                            !.elVarId = Val(variant).id]
             ELSE [w EXCEPT
                     !.selectedVariant = variant,
                     !.elVarId = Val(variant).id,
                     !.elPrice = money.text,
                     !.elImg = IF Val(variant).featured_image # Null
                               THEN ImageSrc(Val(variant).featured_image)
                               ELSE @]

\* the fields the resolver reads and writes
Widget ==
    [currentProduct |-> currentProduct, selectedVariant |-> selectedVariant,
     selections |-> selections, elVarId |-> elVarId, elPrice |-> elPrice,
     elImg |-> elImg, moneyFormat |-> moneyFormat]

-----------------------------------------------------------------------------
(* Program constants *)

\* setTimeout delays in milliseconds
SuccessDelay      == 900
ErrorDelay        == 2000
SuccessDelayClass == 1000

\* the markup's label of the submit control
OrigLabel == "Add to cart"

\* the fixed title of a failed load
ErrorTitle(i) ==
    IF i = "closure" THEN "Unable to load product" ELSE "Error loading product"

-----------------------------------------------------------------------------
(* Add-to-cart flows *)

Slots == 1..MaxFlows

\* pc:      idle | jacket (awaiting the bundle fetch) | post (awaiting
\*          POST /cart/add.js) | timer (awaiting setTimeout) | done (only
\*          the cart refresh is still running)
\* jacket:  none | pending | ok | novariants | non2xx | throw
\* post:    none | pending | ok | non2xx | throw
\* cart:    none | pending | returned | failed      (GET /cart.js)
\* events:  cart-update notification events dispatched
\* items:   the items of the cart-add body, in order
\* origHTML: the label the handler captured
\* labelAtSubmit, selAtSubmit, variantAtSubmit: label, selection state and
\*          selected variant when the handler was called
IdleFlow ==
    [pc |-> "idle", items |-> <<>>, bundle |-> FALSE, jacket |-> "none",
     post |-> "none", cart |-> "none", events |-> 0, origHTML |-> "",
     labelAtSubmit |-> "", selAtSubmit |-> EmptySel, variantAtSubmit |-> Null]

\* { id: ..., quantity: 1 }
Item(id) == [id |-> id, quantity |-> 1]

FlowFree(f) == f.pc = "idle"

\* v.toLowerCase().trim() of every value a picker can hold, computed once
Normalized == [v \in PickerValues |-> trim(toLowerCase(v))]

\* the comparison without trim()
HasValueNoTrim(sel, lit) ==
    \E n \in DOMAIN sel : toLowerCase(sel[n]) = lit

\* Object.values(selections).some(v => v.toLowerCase().trim() === lit)
HasValue(sel, lit) ==
    \E n \in DOMAIN sel : Normalized[sel[n]] = lit

\* network requests of the widget that await their response
Outstanding ==
    Len(fetches)
    + Cardinality({f \in Slots : flows[f].jacket = "pending"})
    + Cardinality({f \in Slots : flows[f].post = "pending"})
    + Cardinality({f \in Slots : flows[f].cart = "pending"})

\* overtaken: the response of a product fetch that was started later had
\* been handled already; closed: closePopup ran while it was in flight
Event(op, handle) ==
    [op |-> op, handle |-> handle, overtaken |-> FALSE, closed |-> FALSE]

\* one more user event
UserEvent ==
    /\ userEvents < MaxUserEvents
    /\ userEvents' = userEvents + 1

\* a flow whose handler, timer and cart refresh have all ended leaves its slot
Finish(flow) ==
    IF flow.pc = "done" /\ flow.cart # "pending" THEN IdleFlow ELSE flow

-----------------------------------------------------------------------------
(* Initial state: the script has run init() on a page with the popup markup *)

\* no script is kept: one implementation runs on its own
ReplayOff == [phase |-> "off", script |-> <<>>, pos |-> 0]

Init ==
    /\ impl \in {"closure", "class"}
    /\ shown = FALSE
    /\ title = ""
    /\ currentProduct = Null
    /\ selectedVariant = Null
    /\ selections = EmptySel
    /\ pickers = {}
    /\ elVarId = 0
    /\ elPrice = <<>>
    /\ elImg = ""
    /\ atcDisabled = FALSE
    /\ atcLabel = OrigLabel
    /\ fetches = <<>>
    /\ flows = [f \in Slots |-> IdleFlow]
    /\ timers = <<>>
    /\ moneyFormat \in MoneyFormats
    /\ userEvents = 0
    /\ lastEvent = Event("init", "")
    /\ replay = ReplayOff

-----------------------------------------------------------------------------
(* Open and close *)

\* openPopup up to its first await (closure): reset, showPopup,
\* setLoading(true), fetch issued
openPopup(handle) ==
    /\ currentProduct' = Null
    /\ selectedVariant' = Null
    /\ selections' = EmptySel
    /\ shown' = TRUE
    /\ atcDisabled' = TRUE
    /\ fetches' = Append(fetches, [handle |-> handle, overtaken |-> FALSE,
                                    closed |-> FALSE])
    /\ UNCHANGED <<title, pickers, elVarId, elPrice, elImg, atcLabel>>

\* openPopup up to its first await (class): showLoadingState, fetch issued
openPopupClass(handle) ==
    /\ shown' = TRUE
    /\ title' = "Loading..."
    /\ fetches' = Append(fetches, [handle |-> handle, overtaken |-> FALSE,
                                    closed |-> FALSE])
    /\ UNCHANGED <<currentProduct, selectedVariant, selections, pickers,
                   elVarId, elPrice, elImg, atcDisabled, atcLabel>>

\* a click (or key press) on a hotspot of the grid
HotspotClick(handle) ==
    /\ Len(fetches) < MaxOpens
    /\ UserEvent
    /\ IF impl = "closure" THEN openPopup(handle) ELSE openPopupClass(handle)
    /\ lastEvent' = Event("open", handle)
    /\ UNCHANGED <<impl, flows, timers, moneyFormat>>

\* the fetches still in flight once the response of fetch i is taken: the
\* ones started before it have been overtaken
AfterResponse(i) ==
    [k \in 1..(Len(fetches) - 1) |->
        IF k < i THEN [fetches[k] EXCEPT !.overtaken = TRUE]
        ELSE fetches[k + 1]]

\* an openPopup that drops the response when the popup has been closed
\* while the fetch was in flight
populatePopupUnlessClosed(product) ==
    IF ~shown
    THEN /\ atcDisabled' = FALSE
         /\ UNCHANGED <<currentProduct, elImg, title, elPrice, selections,
                        pickers, selectedVariant, elVarId, shown, atcLabel>>
    ELSE LET r == renderVariantSelectors(product, selections)
         IN  /\ currentProduct' = Some(product)
             /\ elImg' = IF product.featured_image # Null
                         THEN Val(product.featured_image) ELSE elImg
             /\ title' = product.title
             /\ elPrice' = FormatMoneyTable[product.price, moneyFormat].text
             /\ selections' = r.selections
             /\ pickers' = r.pickers
             /\ selectedVariant' = Some(product.variants[1])
             /\ elVarId' = product.variants[1].id
             /\ atcDisabled' = FALSE
             /\ UNCHANGED <<shown, atcLabel>>

\* populatePopup (closure), then the finally clause of openPopup
populatePopup(product) ==
    LET r == renderVariantSelectors(product, selections)
        first == IF Len(product.variants) > 0
                 THEN Some(product.variants[1]) ELSE Null
    IN  /\ currentProduct' = Some(product)
        /\ elImg' = IF product.featured_image # Null
                    THEN Val(product.featured_image) ELSE elImg
        /\ title' = product.title
        /\ elPrice' = FormatMoneyTable[product.price, moneyFormat].text
        /\ selections' = r.selections
        /\ pickers' = r.pickers
        /\ selectedVariant' = first
        /\ elVarId' = IF first # Null THEN Val(first).id ELSE elVarId
        /\ atcDisabled' = FALSE
        /\ UNCHANGED <<shown, atcLabel>>

\* populatePopup (class) and the rest of openPopup: a formatMoney that
\* throws, or a product without variants, ends in showErrorState
populatePopupClass(product) ==
    LET money == FormatMoneyClassTable[product.price, moneyFormat]
        r == renderVariants(product, selections)
    IN  /\ currentProduct' = Some(product)
        /\ elImg' = IF product.featured_image # Null
                    THEN Val(product.featured_image) ELSE elImg
        /\ IF money.threw
           THEN /\ title' = ErrorTitle("class")
                /\ UNCHANGED <<elPrice, selections, pickers, selectedVariant,
                               elVarId, shown>>
           ELSE /\ elPrice' = money.text
                /\ selections' = r.selections
                /\ pickers' = r.pickers
                /\ IF Len(product.variants) > 0
                   THEN /\ selectedVariant' = Some(product.variants[1])
                        /\ elVarId' = product.variants[1].id
                        /\ title' = product.title
                        /\ shown' = TRUE
                   ELSE /\ selectedVariant' = Null
                        /\ title' = ErrorTitle("class")
                        /\ UNCHANGED <<elVarId, shown>>
        /\ UNCHANGED <<atcDisabled, atcLabel>>

\* the response of product fetch i arrives with status 2xx and a product
ProductLoaded(i) ==
    /\ i \in 1..Len(fetches)
    /\ IF impl = "closure"
       THEN populatePopup(Catalog[fetches[i].handle])
       ELSE populatePopupClass(Catalog[fetches[i].handle])
    /\ fetches' = AfterResponse(i)
    /\ lastEvent' = [op |-> "loaded", handle |-> fetches[i].handle,
                     overtaken |-> fetches[i].overtaken,
                     closed |-> fetches[i].closed]
    /\ UNCHANGED <<impl, flows, timers, moneyFormat, userEvents>>

\* product fetch i fails: a non-2xx status or a rejected fetch
ProductFailed(i, how) ==
    /\ i \in 1..Len(fetches)
    /\ title' = ErrorTitle(impl)
    /\ atcDisabled' = IF impl = "closure" THEN FALSE ELSE atcDisabled
    /\ fetches' = AfterResponse(i)
    /\ lastEvent' = Event("loadFailed", fetches[i].handle)
    /\ UNCHANGED <<impl, shown, currentProduct, selectedVariant, selections,
                   pickers, elVarId, elPrice, elImg, atcLabel, flows, timers,
                   moneyFormat, userEvents>>

\* a closePopup that forgets to clear the selection state
closePopupKeepsSelections ==
    /\ shown' = FALSE
    /\ currentProduct' = Null
    /\ selectedVariant' = Null
    /\ UNCHANGED selections

\* closePopup, the same in both implementations
closePopup ==
    /\ shown' = FALSE
    /\ currentProduct' = Null
    /\ selectedVariant' = Null
    /\ selections' = EmptySel

\* the close button, a click on the backdrop, or the ESC key
Close ==
    /\ shown
    /\ UserEvent
    /\ closePopup
    /\ fetches' = [k \in 1..Len(fetches) |-> [fetches[k] EXCEPT !.closed = TRUE]]
    /\ lastEvent' = Event("close", "")
    /\ UNCHANGED <<impl, title, pickers, elVarId, elPrice, elImg, atcDisabled,
                   atcLabel, flows, timers, moneyFormat>>

-----------------------------------------------------------------------------
(* Picking an option value *)

\* a click on a displayed button, or a change of a displayed dropdown
Pick(name, val) ==
    /\ shown
    /\ UserEvent
    /\ <<name, val>> \in pickers
    /\ LET w0 == [Widget EXCEPT !.selections = SetSelection(selections, name, val)]
           w  == IF impl = "closure" THEN resolveVariant(w0)
                 ELSE updateSelectedVariant(w0)
       IN  /\ selections' = w.selections
           /\ selectedVariant' = w.selectedVariant
           /\ elVarId' = w.elVarId
           /\ elPrice' = w.elPrice
           /\ elImg' = w.elImg
    /\ lastEvent' = Event("pick", name)
    /\ UNCHANGED <<impl, shown, title, currentProduct, pickers, atcDisabled,
                   atcLabel, fetches, flows, timers, moneyFormat>>

-----------------------------------------------------------------------------
(* Add to cart *)

\* the slot a new flow takes
FreeSlot == CHOOSE f \in Slots : FlowFree(flows[f]) /\
                \A g \in Slots : FlowFree(flows[g]) => f <= g

\* handleAddToCart up to its first await (closure).  The bundle rule reads
\* the selection state; only when it does not trigger are the label
\* captured, the control disabled and the POST issued in the same turn.
handleAddToCart(f) ==
    LET hasBlack  == HasValue(selections, BlackLit)
        hasMedium == HasValue(selections, MediumLit)
        flow == [IdleFlow EXCEPT
                    !.items = <<Item(Val(selectedVariant).id)>>,
                    !.variantAtSubmit = selectedVariant,
                    !.bundle = hasBlack /\ hasMedium,
                    !.labelAtSubmit = atcLabel,
                    !.selAtSubmit = selections]
    IN  IF hasBlack /\ hasMedium
        THEN /\ flows' = [flows EXCEPT ![f] =
                            [flow EXCEPT !.pc = "jacket", !.jacket = "pending"]]
             /\ UNCHANGED <<atcDisabled, atcLabel>>
        ELSE /\ flows' = [flows EXCEPT ![f] =
                            [flow EXCEPT !.pc = "post", !.post = "pending",
                                         !.origHTML = atcLabel]]
             /\ atcDisabled' = TRUE
             /\ atcLabel' = "Adding"

\* handleAddToCart up to its first await (class): the label is captured and
\* the control disabled before the bundle rule is evaluated
handleAddToCartClass(f) ==
    LET hasBlack  == HasValue(selections, BlackLit)
        hasMedium == HasValue(selections, MediumLit)
        flow == [IdleFlow EXCEPT
                    !.items = <<Item(Val(selectedVariant).id)>>,
                    !.variantAtSubmit = selectedVariant,
                    !.bundle = hasBlack /\ hasMedium,
                    !.origHTML = atcLabel,
                    !.labelAtSubmit = atcLabel,
                    !.selAtSubmit = selections]
    IN  /\ atcDisabled' = TRUE
        /\ atcLabel' = "Adding"
        /\ flows' = [flows EXCEPT ![f] =
                        IF hasBlack /\ hasMedium
                        THEN [flow EXCEPT !.pc = "jacket", !.jacket = "pending"]
                        ELSE [flow EXCEPT !.pc = "post", !.post = "pending"]]

\* the form is submitted through its enabled submit control
Submit ==
    /\ shown
    /\ UserEvent
    /\ ~atcDisabled
    /\ selectedVariant # Null
    /\ \E f \in Slots : FlowFree(flows[f])
    /\ IF impl = "closure" THEN handleAddToCart(FreeSlot)
       ELSE handleAddToCartClass(FreeSlot)
    /\ lastEvent' = Event("submit", "")
    /\ UNCHANGED <<impl, shown, title, currentProduct, selectedVariant,
                   selections, pickers, elVarId, elPrice, elImg, fetches,
                   timers, moneyFormat>>

\* the form is submitted while no variant is selected: both handlers
\* return at once (the class implementation after an alert)
SubmitNoVariant ==
    /\ shown
    /\ UserEvent
    /\ ~atcDisabled
    /\ selectedVariant = Null
    /\ lastEvent' = Event("submitNoVariant", "")
    /\ UNCHANGED <<impl, shown, title, currentProduct, selectedVariant,
                   selections, pickers, elVarId, elPrice, elImg, atcDisabled,
                   atcLabel, fetches, flows, timers, moneyFormat>>

\* the items list after the bundle fetch ended as `how`
ItemsAfterJacket(items, how) ==
    IF how = "ok" THEN Append(items, Item(JacketVariantId)) ELSE items

\* the bundle fetch of flow f ends: ok (2xx, a product with variants),
\* novariants, non2xx or throw; then the POST is issued
JacketResponse(f, how) ==
    /\ flows[f].pc = "jacket"
    /\ IF impl = "closure"
       THEN /\ flows' = [flows EXCEPT ![f] =
                    [@ EXCEPT !.pc = "post", !.jacket = how,
                              !.post = "pending",
                              !.items = ItemsAfterJacket(@, how),
                              !.origHTML = atcLabel]]
            /\ atcDisabled' = TRUE
            /\ atcLabel' = "Adding"
       ELSE /\ flows' = [flows EXCEPT ![f] =
                    [@ EXCEPT !.pc = "post", !.jacket = how,
                              !.post = "pending",
                              !.items = ItemsAfterJacket(@, how)]]
            /\ UNCHANGED <<atcDisabled, atcLabel>>
    /\ lastEvent' = Event("jacket", "")
    /\ UNCHANGED <<impl, shown, title, currentProduct, selectedVariant,
                   selections, pickers, elVarId, elPrice, elImg, fetches,
                   timers, moneyFormat, userEvents>>

\* POST /cart/add.js of flow f succeeds: success label, cart refresh
\* started (not awaited), delayed close scheduled
PostOk(f) ==
    /\ flows[f].pc = "post"
    /\ flows' = [flows EXCEPT ![f] =
            [@ EXCEPT !.pc = "timer", !.post = "ok", !.cart = "pending"]]
    /\ atcLabel' = "Added"
    /\ timers' = Append(timers,
            [flow |-> f, kind |-> "ok",
             delay |-> IF impl = "closure" THEN SuccessDelay
                       ELSE SuccessDelayClass])
    /\ lastEvent' = Event("postOk", "")
    /\ UNCHANGED <<impl, shown, title, currentProduct, selectedVariant,
                   selections, pickers, elVarId, elPrice, elImg, atcDisabled,
                   fetches, moneyFormat, userEvents>>

\* a failure path that refreshes the cart all the same
PostFailRefreshesCart(f, how) ==
    /\ flows[f].pc = "post"
    /\ flows' = [flows EXCEPT ![f] =
            [@ EXCEPT !.pc = "timer", !.post = how, !.cart = "pending"]]
    /\ atcLabel' = "Error"
    /\ timers' = Append(timers, [flow |-> f, kind |-> "err", delay |-> ErrorDelay])
    /\ lastEvent' = Event("postFail", "")
    /\ UNCHANGED <<impl, shown, title, currentProduct, selectedVariant,
                   selections, pickers, elVarId, elPrice, elImg, atcDisabled,
                   fetches, moneyFormat, userEvents>>

\* POST /cart/add.js of flow f fails (non2xx or throw).  closure: error
\* label, restore scheduled; class: alert, control restored at once
PostFail(f, how) ==
    /\ flows[f].pc = "post"
    /\ IF impl = "closure"
       THEN /\ flows' = [flows EXCEPT ![f] = [@ EXCEPT !.pc = "timer", !.post = how]]
            /\ atcLabel' = "Error"
            /\ timers' = Append(timers,
                    [flow |-> f, kind |-> "err", delay |-> ErrorDelay])
            /\ UNCHANGED atcDisabled
       ELSE /\ flows' = [flows EXCEPT ![f] =
                        Finish([@ EXCEPT !.pc = "done", !.post = how])]
            /\ atcLabel' = flows[f].origHTML
            /\ atcDisabled' = FALSE
            /\ UNCHANGED timers
    /\ lastEvent' = Event("postFail", "")
    /\ UNCHANGED <<impl, shown, title, currentProduct, selectedVariant,
                   selections, pickers, elVarId, elPrice, elImg, fetches,
                   moneyFormat, userEvents>>

\* refreshCart / updateCartCount after GET /cart.js returned a cart: the
\* badges are updated and the notification event is dispatched
CartReturned(f) ==
    /\ flows[f].cart = "pending"
    /\ flows' = [flows EXCEPT ![f] =
            Finish([@ EXCEPT !.cart = "returned", !.events = @ + 1])]
    /\ lastEvent' = Event("cartReturned", "")
    /\ UNCHANGED <<impl, shown, title, currentProduct, selectedVariant,
                   selections, pickers, elVarId, elPrice, elImg, atcDisabled,
                   atcLabel, fetches, timers, moneyFormat, userEvents>>

\* GET /cart.js is rejected or its body is no JSON: logged, no event
CartFailed(f) ==
    /\ flows[f].cart = "pending"
    /\ flows' = [flows EXCEPT ![f] = Finish([@ EXCEPT !.cart = "failed"])]
    /\ lastEvent' = Event("cartFailed", "")
    /\ UNCHANGED <<impl, shown, title, currentProduct, selectedVariant,
                   selections, pickers, elVarId, elPrice, elImg, atcDisabled,
                   atcLabel, fetches, timers, moneyFormat, userEvents>>

\* timer i is due before every timer still pending: a timer started
\* earlier with a delay that is not longer fires first
TimerDue(i) ==
    \A j \in 1..(i - 1) : timers[j].delay > timers[i].delay

RemoveAt(seq, i) ==
    [k \in 1..(Len(seq) - 1) |-> IF k < i THEN seq[k] ELSE seq[k + 1]]

\* the setTimeout callback of a successful add: closePopup, then the
\* control is restored
SuccessTimer(i) ==
    /\ i \in 1..Len(timers)
    /\ timers[i].kind = "ok"
    /\ TimerDue(i)
    /\ closePopup
    /\ atcLabel' = flows[timers[i].flow].origHTML
    /\ atcDisabled' = FALSE
    /\ flows' = [flows EXCEPT ![timers[i].flow] =
                    Finish([@ EXCEPT !.pc = "done"])]
    /\ timers' = RemoveAt(timers, i)
    /\ fetches' = [k \in 1..Len(fetches) |-> [fetches[k] EXCEPT !.closed = TRUE]]
    /\ lastEvent' = Event("successTimer", "")
    /\ UNCHANGED <<impl, title, pickers, elVarId, elPrice, elImg, moneyFormat, userEvents>>

\* the setTimeout callback of a failed add (closure): the control is restored
ErrorTimer(i) ==
    /\ i \in 1..Len(timers)
    /\ timers[i].kind = "err"
    /\ TimerDue(i)
    /\ atcLabel' = flows[timers[i].flow].origHTML
    /\ atcDisabled' = FALSE
    /\ flows' = [flows EXCEPT ![timers[i].flow] =
                    Finish([@ EXCEPT !.pc = "done"])]
    /\ timers' = RemoveAt(timers, i)
    /\ lastEvent' = Event("errorTimer", "")
    /\ UNCHANGED <<impl, shown, title, currentProduct, selectedVariant,
                   selections, pickers, elVarId, elPrice, elImg, fetches,
                   moneyFormat, userEvents>>

-----------------------------------------------------------------------------
(* The widget *)

Next ==
    \/ \E h \in Handles : HotspotClick(h) /\ UNCHANGED replay
    \/ \E i \in 1..MaxOpens : ProductLoaded(i) /\ UNCHANGED replay
    \/ \E i \in 1..MaxOpens, how \in {"non2xx", "throw"} : ProductFailed(i, how)
        /\ UNCHANGED replay
    \/ Close /\ UNCHANGED replay
    \/ \E n \in {"Color", "Size", "Title"}, v \in PickerValues : Pick(n, v)
        /\ UNCHANGED replay
    \/ Submit /\ UNCHANGED replay
    \/ SubmitNoVariant /\ UNCHANGED replay
    \/ \E f \in Slots, how \in {"ok", "novariants", "non2xx", "throw"} :
            JacketResponse(f, how) /\ UNCHANGED replay
    \/ \E f \in Slots : PostOk(f) /\ UNCHANGED replay
    \/ \E f \in Slots, how \in {"non2xx", "throw"} : PostFail(f, how)
        /\ UNCHANGED replay
    \/ \E f \in Slots : CartReturned(f) /\ UNCHANGED replay
    \/ \E f \in Slots : CartFailed(f) /\ UNCHANGED replay
    \/ \E i \in 1..MaxFlows : SuccessTimer(i) /\ UNCHANGED replay
    \/ \E i \in 1..MaxFlows : ErrorTimer(i) /\ UNCHANGED replay

Spec == Init /\ [][Next]_vars

\* a step of the platform for the product fetches
ProductResponse ==
    \/ \E i \in 1..MaxOpens : ProductLoaded(i)
    \/ \E i \in 1..MaxOpens, how \in {"non2xx", "throw"} : ProductFailed(i, how)

\* a step of the platform for the add-to-cart flows: a response arrives or
\* a timer fires
CartResponse ==
    \/ \E f \in Slots, how \in {"ok", "novariants", "non2xx", "throw"} :
            JacketResponse(f, how)
    \/ \E f \in Slots : PostOk(f)
    \/ \E f \in Slots, how \in {"non2xx", "throw"} : PostFail(f, how)
    \/ \E f \in Slots : CartReturned(f)
    \/ \E f \in Slots : CartFailed(f)
    \/ \E i \in 1..MaxFlows : SuccessTimer(i)
    \/ \E i \in 1..MaxFlows : ErrorTimer(i)

Response == ProductResponse \/ CartResponse

\* every network request is answered and every timer fires; the user is
\* free to stop.  Each response and each timer is taken once and the user
\* events are finitely many, so fairness of the platform as a whole gives
\* every single response and timer its turn.
Fairness == WF_vars(Response /\ UNCHANGED replay)

\* What openPopup and populatePopup leave in the resolver's fields when a
\* fresh page shows product `handle`
Populated(handle, im, fmt) ==
    LET product == Catalog[handle]
        r == IF im = "closure" THEN renderVariantSelectors(product, EmptySel)
             ELSE renderVariants(product, EmptySel)
        money == IF im = "closure" THEN FormatMoneyTable[product.price, fmt]
                 ELSE FormatMoneyClassTable[product.price, fmt]
    IN  [currentProduct |-> Some(product),
         selectedVariant |-> Some(product.variants[1]),
         selections |-> r.selections, elVarId |-> product.variants[1].id,
         elPrice |-> money.text,
         elImg |-> IF product.featured_image # Null
                   THEN Val(product.featured_image) ELSE "",
         moneyFormat |-> fmt]

\* the pickers rendered for product `handle`
PickersOf(handle, im) ==
    IF im = "closure" THEN renderVariantSelectors(Catalog[handle], EmptySel).pickers
    ELSE renderVariants(Catalog[handle], EmptySel).pickers

\* the customer's picks before the first add to cart
MaxPicksLive == 1

RECURSIVE Picked(_, _, _)
Picked(w, picks, im) ==
    IF picks = <<>> THEN w
    ELSE LET w0 == [w EXCEPT !.selections =
                        SetSelection(w.selections, picks[1][1], picks[1][2])]
         IN  Picked(IF im = "closure" THEN resolveVariant(w0)
                    ELSE updateSelectedVariant(w0),
                    Tail(picks), im)

\* The popup shows a product of the catalogue and the customer has made
\* their picks; the add-to-cart flows and the user events counted start
\* here.
InitLive ==
    /\ impl \in {"closure", "class"}
    /\ moneyFormat \in MoneyFormats
    /\ \E handle \in Handles :
        \E n \in 0..MaxPicksLive :
        \E picks \in [1..n -> PickersOf(handle, impl)] :
          LET w == Picked(Populated(handle, impl, moneyFormat), picks, impl)
          IN  /\ currentProduct = w.currentProduct
              /\ selectedVariant = w.selectedVariant
              /\ selections = w.selections
              /\ elVarId = w.elVarId
              /\ elPrice = w.elPrice
              /\ elImg = w.elImg
              /\ pickers = PickersOf(handle, impl)
              /\ title = Catalog[handle].title
              /\ lastEvent = IF n = 0 THEN Event("loaded", handle)
                             ELSE Event("pick", picks[n][1])
    /\ shown = TRUE
    /\ atcDisabled = FALSE
    /\ atcLabel = OrigLabel
    /\ fetches = <<>>
    /\ flows = [f \in Slots |-> IdleFlow]
    /\ timers = <<>>
    /\ userEvents = 0
    /\ replay = ReplayOff

\* the add-to-cart life of that popup: the customer submits the form, any
\* number of times, and may close the popup; the platform answers
NextLive ==
    \/ Submit /\ UNCHANGED replay
    \/ Close /\ UNCHANGED replay
    \/ CartResponse /\ UNCHANGED replay

SpecLive == InitLive /\ [][NextLive]_vars /\ Fairness

-----------------------------------------------------------------------------
(* The variant resolver on its own: every product of a bounded family and   *)
(* every selection state, the resolver applied once                         *)

\* longest variant list of the family
MaxVariants == 3

\* variant lists over two options; the id of a variant is its position, so
\* two variants with the same option values are still told apart
ResolverVariantLists ==
    UNION {[1..n -> {<<o1, o2>> : o1 \in {Null, Some(VWhite), Some(VBlack)},
                                  o2 \in {Some(VSmall), Some(VMedium)}}] :
           n \in 1..MaxVariants}

ResolverProduct(options, list) ==
    [handle |-> "family", title |-> "Family", price |-> 1999,
     featured_image |-> Null, options |-> options,
     variants |-> [i \in 1..Len(list) |->
                      Variant(i, 1999, list[i][1], list[i][2], Null)]]

\* selection states over the option names Color and Size and the foreign
\* name Fit, each present or absent
ResolverSelections ==
    UNION {{sel \in [names -> {VWhite, VBlack, VSmall, VMedium}] :
               /\ "Color" \in names => sel["Color"] \in {VWhite, VBlack}
               /\ "Size" \in names => sel["Size"] \in {VSmall, VMedium}
               /\ "Fit" \in names => sel["Fit"] = VSmall} :
           names \in SUBSET {"Color", "Size", "Fit"}}

InitResolver ==
    /\ impl \in {"closure", "class"}
    /\ \E options \in {<<"Color", "Size">>, <<"Size", "Color">>},
          list \in ResolverVariantLists :
            currentProduct = Some(ResolverProduct(options, list))
    /\ selections \in ResolverSelections
    /\ selectedVariant = Some(Val(currentProduct).variants[1])
    /\ elVarId = 1
    /\ shown = TRUE
    /\ title = "Family"
    /\ pickers = {}
    /\ elPrice = <<>>
    /\ elImg = ""
    /\ atcDisabled = FALSE
    /\ atcLabel = OrigLabel
    /\ fetches = <<>>
    /\ flows = [f \in Slots |-> IdleFlow]
    /\ timers = <<>>
    /\ moneyFormat = Null
    /\ userEvents = 0
    /\ lastEvent = Event("init", "")
    /\ replay = ReplayOff

\* resolveVariant() / updateSelectedVariant() called once
Resolve ==
    /\ lastEvent.op = "init"
    /\ LET w == IF impl = "closure" THEN resolveVariant(Widget)
                ELSE updateSelectedVariant(Widget)
       IN  /\ selectedVariant' = w.selectedVariant
           /\ elVarId' = w.elVarId
           /\ elPrice' = w.elPrice
           /\ elImg' = w.elImg
    /\ lastEvent' = Event("resolve", "")
    /\ UNCHANGED <<impl, shown, title, currentProduct, selections, pickers,
                   atcDisabled, atcLabel, fetches, flows, timers, moneyFormat,
                   userEvents>>

NextResolver == Resolve /\ UNCHANGED replay

SpecResolver == InitResolver /\ [][NextResolver]_vars

-----------------------------------------------------------------------------
(* The money formatter on its own: every amount and every template of a     *)
(* bounded family, formatMoney applied once to the product's price          *)

\* amounts in minor units: below and above one unit, at the rounding
\* boundary, with three, four and seven digits of whole units
Amounts ==
    {0, 5, 50, 99, 100, 149, 150, 999, 1000, 99950, 100050, 123456, 1234567,
     100000000}

\* a mode name that formatMoney does not know
KeyUnknown == <<"a","m","o","u","n","t","_","x">>

MoneyKeys ==
    {KeyAmount, KeyAmountNoDecimals, KeyAmountWithCommaSeparator,
     KeyAmountNoDecimalsWithCommaSeparator,
     KeyAmountNoDecimalsWithSpaceSeparator, KeyUnknown}

\* templates: text before the placeholder, the placeholder's mode name (Null:
\* the template holds no placeholder), blanks inside the braces or not
MoneyTemplates ==
    {[prefix |-> pre, key |-> k, spaced |-> sp, suffix |-> suf] :
        pre \in {<<>>, <<"$">>},
        k \in {Some(key) : key \in MoneyKeys} \cup {Null},
        sp \in BOOLEAN,
        suf \in {<<>>, <<" ","E","U","R">>}}

\* the text of a template
TemplateText(t) ==
    IF t.key = Null THEN t.prefix \o <<"n","/","a">> \o t.suffix
    ELSE t.prefix \o <<"{","{">>
         \o (IF t.spaced THEN <<" ">> ELSE <<>>)
         \o Val(t.key)
         \o (IF t.spaced THEN <<" ">> ELSE <<>>)
         \o <<"}","}">> \o t.suffix

\* a product without options whose price is the amount
MoneyProduct(amount) ==
    [handle |-> "priced", title |-> "Priced", price |-> amount,
     featured_image |-> Null, options |-> <<"Title">>,
     variants |-> <<Variant(1, amount, Some(VDefault), Null, Null)>>]

InitMoney ==
    /\ impl \in {"closure", "class"}
    /\ \E amount \in Amounts : currentProduct = Some(MoneyProduct(amount))
    /\ \E t \in MoneyTemplates : moneyFormat = Some(TemplateText(t))
    /\ selectedVariant = Null
    /\ selections = EmptySel
    /\ elVarId = 0
    /\ shown = TRUE
    /\ title = "Priced"
    /\ pickers = {}
    /\ elPrice = <<>>
    /\ elImg = ""
    /\ atcDisabled = FALSE
    /\ atcLabel = OrigLabel
    /\ fetches = <<>>
    /\ flows = [f \in Slots |-> IdleFlow]
    /\ timers = <<>>
    /\ userEvents = 0
    /\ lastEvent = Event("init", "")
    /\ replay = ReplayOff

\* elPrice.textContent = formatMoney(product.price), called once; a throw
\* leaves the price slot as it was
Format ==
    /\ lastEvent.op = "init"
    /\ LET money == IF impl = "closure"
                    THEN formatMoney(Val(currentProduct).price, moneyFormat)
                    ELSE formatMoneyClass(Val(currentProduct).price, moneyFormat)
       IN  /\ elPrice' = IF money.threw THEN elPrice ELSE money.text
           /\ lastEvent' = Event(IF money.threw THEN "formatMoneyThrew"
                                 ELSE "formatMoney", "")
    /\ UNCHANGED <<impl, shown, title, currentProduct, selectedVariant,
                   selections, pickers, elVarId, elImg, atcDisabled, atcLabel,
                   fetches, flows, timers, moneyFormat, userEvents>>

NextMoney == Format /\ UNCHANGED replay

SpecMoney == InitMoney /\ [][NextMoney]_vars

-----------------------------------------------------------------------------
(* The two implementations over one script *)

\* steps of one recorded run
MaxScript == 5

\* a step of a run: a user event or a response of the network, with the
\* request or timer it belongs to
StepOf(op, handle, idx, how, name, val) ==
    [op |-> op, handle |-> handle, idx |-> idx, how |-> how, name |-> name,
     val |-> val]

Steps ==
    {StepOf("open", h, 0, "", "", <<>>) : h \in Handles}
    \cup {StepOf("loaded", "", i, "", "", <<>>) : i \in 1..MaxOpens}
    \cup {StepOf("loadFailed", "", i, how, "", <<>>) :
              i \in 1..MaxOpens, how \in {"non2xx", "throw"}}
    \cup {StepOf("close", "", 0, "", "", <<>>)}
    \cup {StepOf("pick", "", 0, "", n, v) :
              n \in {"Color", "Size", "Title"}, v \in PickerValues}
    \cup {StepOf("submit", "", 0, "", "", <<>>)}
    \cup {StepOf("submitNoVariant", "", 0, "", "", <<>>)}
    \cup {StepOf("jacket", "", f, how, "", <<>>) :
              f \in Slots, how \in {"ok", "novariants", "non2xx", "throw"}}
    \cup {StepOf("postOk", "", f, "", "", <<>>) : f \in Slots}
    \cup {StepOf("postFail", "", f, how, "", <<>>) :
              f \in Slots, how \in {"non2xx", "throw"}}
    \cup {StepOf("cartReturned", "", f, "", "", <<>>) : f \in Slots}
    \cup {StepOf("cartFailed", "", f, "", "", <<>>) : f \in Slots}
    \cup {StepOf("successTimer", "", i, "", "", <<>>) : i \in 1..MaxFlows}
    \cup {StepOf("errorTimer", "", i, "", "", <<>>) : i \in 1..MaxFlows}

\* the handler or continuation that step s runs
Do(s) ==
    \/ s.op = "open" /\ HotspotClick(s.handle)
    \/ s.op = "loaded" /\ ProductLoaded(s.idx)
    \/ s.op = "loadFailed" /\ ProductFailed(s.idx, s.how)
    \/ s.op = "close" /\ Close
    \/ s.op = "pick" /\ Pick(s.name, s.val)
    \/ s.op = "submit" /\ Submit
    \/ s.op = "submitNoVariant" /\ SubmitNoVariant
    \/ s.op = "jacket" /\ JacketResponse(s.idx, s.how)
    \/ s.op = "postOk" /\ PostOk(s.idx)
    \/ s.op = "postFail" /\ PostFail(s.idx, s.how)
    \/ s.op = "cartReturned" /\ CartReturned(s.idx)
    \/ s.op = "cartFailed" /\ CartFailed(s.idx)
    \/ s.op = "successTimer" /\ SuccessTimer(s.idx)
    \/ s.op = "errorTimer" /\ ErrorTimer(s.idx)

\* What a run shows of the widget: Product, Selection state, Selected
\* variant, the price slot, the product fetches in flight and the
\* add-to-cart requests with their items
Observed ==
    [product |-> currentProduct,
     selections |-> selections,
     variant |-> selectedVariant,
     price |-> elPrice,
     fetching |-> [k \in 1..Len(fetches) |-> fetches[k].handle],
     requests |-> [f \in Slots |->
                     [jacket |-> flows[f].jacket, post |-> flows[f].post,
                      cart |-> flows[f].cart, items |-> flows[f].items]]]

\* the closure implementation starts on a fresh page and its run is recorded
InitEquiv ==
    /\ impl = "closure"
    /\ shown = FALSE
    /\ title = ""
    /\ currentProduct = Null
    /\ selectedVariant = Null
    /\ selections = EmptySel
    /\ pickers = {}
    /\ elVarId = 0
    /\ elPrice = <<>>
    /\ elImg = ""
    /\ atcDisabled = FALSE
    /\ atcLabel = OrigLabel
    /\ fetches = <<>>
    /\ flows = [f \in Slots |-> IdleFlow]
    /\ timers = <<>>
    /\ moneyFormat \in MoneyFormats
    /\ userEvents = 0
    /\ lastEvent = Event("init", "")
    /\ replay = [phase |-> "record", script |-> <<>>, pos |-> 0]

\* a step of the recorded run: the script keeps the step and what the
\* widget shows after it
Record(s) ==
    /\ replay.phase = "record"
    /\ Len(replay.script) < MaxScript
    /\ Do(s)
    /\ replay' = [replay EXCEPT
                    !.script = Append(@, [step |-> s, seen |-> Observed'])]

\* the page is loaded afresh with the class implementation, which is to
\* take the recorded steps
Switch ==
    /\ replay.phase = "record"
    /\ replay.script # <<>>
    /\ impl' = "class"
    /\ shown' = FALSE
    /\ title' = ""
    /\ currentProduct' = Null
    /\ selectedVariant' = Null
    /\ selections' = EmptySel
    /\ pickers' = {}
    /\ elVarId' = 0
    /\ elPrice' = <<>>
    /\ elImg' = ""
    /\ atcDisabled' = FALSE
    /\ atcLabel' = OrigLabel
    /\ fetches' = <<>>
    /\ flows' = [f \in Slots |-> IdleFlow]
    /\ timers' = <<>>
    /\ userEvents' = 0
    /\ lastEvent' = Event("init", "")
    /\ replay' = [replay EXCEPT !.phase = "replay"]
    /\ UNCHANGED moneyFormat

\* the class implementation takes the next step of the script
Replay ==
    /\ replay.phase = "replay"
    /\ replay.pos < Len(replay.script)
    /\ Do(replay.script[replay.pos + 1].step)
    /\ replay' = [replay EXCEPT !.pos = @ + 1]

NextEquiv ==
    \/ \E s \in Steps : Record(s)
    \/ Switch
    \/ Replay

SpecEquiv == InitEquiv /\ [][NextEquiv]_vars

-----------------------------------------------------------------------------
(* Properties *)

\* variant v agrees with the selection at the position of every option of
\* the product that has a selection
AgreesWithSelections(product, sel, v) ==
    \A pos \in 1..Len(product.options) :
        product.options[pos] \in DOMAIN sel =>
            OptionAt(v, pos) = Some(sel[product.options[pos]])

\* C1: after variant resolution, when some variant agrees with the selection
\* at the position of every option that has a selection, the selected variant
\* is the first such variant in Product.variants order; options without a
\* selection do not constrain the match, and when every option has a
\* selection the variant selected carries exactly the selected values.
C1_ResolverSelectsFirstMatch ==
    lastEvent.op = "resolve" =>
        LET product == Val(currentProduct)
        IN  \A i \in 1..Len(product.variants) :
                ( /\ AgreesWithSelections(product, selections, product.variants[i])
                  /\ \A j \in 1..(i - 1) :
                        ~AgreesWithSelections(product, selections, product.variants[j]) )
                => /\ selectedVariant = Some(product.variants[i])
                   /\ ( {"Color", "Size"} \subseteq DOMAIN selections =>
                          \A pos \in 1..2 :
                             OptionAt(Val(selectedVariant), pos)
                                = Some(selections[product.options[pos]]) )

\* C1 witness: one option has no selection, two variants agree with the
\* selection, and the resolver has moved the selected variant to the first of
\* them, which is not the first variant of the product.
C1_Witness ==
    /\ lastEvent.op = "resolve"
    /\ DOMAIN selections = {"Size", "Fit"}
    /\ LET product == Val(currentProduct)
       IN  /\ Len(product.variants) = 3
           /\ ~AgreesWithSelections(product, selections, product.variants[1])
           /\ AgreesWithSelections(product, selections, product.variants[2])
           /\ AgreesWithSelections(product, selections, product.variants[3])
           /\ selectedVariant = Some(product.variants[2])

\* some value of selection state sel equals lit once it is lower-cased and
\* stripped of surrounding whitespace
SelectionHolds(sel, lit) ==
    \E n \in DOMAIN sel : trim(toLowerCase(sel[n])) = lit

BundleRuleTriggers(sel) ==
    SelectionHolds(sel, BlackLit) /\ SelectionHolds(sel, MediumLit)

\* C2: a handleAddToCart that ran with a selected variant and a selection
\* state holding "black" and "medium" (any casing, any padding) fetches the
\* bundle product and, whatever that fetch gave, issues POST /cart/add.js:
\* with the selected variant followed by the first variant of the bundle
\* product, quantity 1 each, when the fetch gave a product with a variant;
\* with the selected variant alone when it threw, gave a non-2xx status or
\* gave a product without variants.
C2_BundleItems ==
    \A f \in Slots :
        (flows[f].pc # "idle" /\ BundleRuleTriggers(flows[f].selAtSubmit)) =>
            /\ flows[f].jacket # "none"
            /\ flows[f].jacket # "pending" =>
                 /\ flows[f].post # "none"
                 /\ flows[f].items =
                      IF flows[f].jacket = "ok"
                      THEN << [id |-> Val(flows[f].variantAtSubmit).id, quantity |-> 1],
                              [id |-> JacketVariantId, quantity |-> 1] >>
                      ELSE << [id |-> Val(flows[f].variantAtSubmit).id, quantity |-> 1] >>

\* C2 witness: the selections " BLACK" and "medium " were submitted, the
\* bundle fetch gave a product with a variant, and the POST with two items
\* awaits its response.
C2_Witness ==
    \E f \in Slots :
        /\ flows[f].selAtSubmit = [n \in {"Color", "Size"} |->
                                     IF n = "Color" THEN VBlackPad ELSE VMediumPad]
        /\ flows[f].jacket = "ok"
        /\ flows[f].post = "pending"
        /\ Len(flows[f].items) = 2

\* variant v has an option value equal to lit once lower-cased and trimmed
HasOptionValue(v, lit) ==
    \E pos \in 1..3 :
        /\ OptionAt(v, pos) # Null
        /\ trim(toLowerCase(Val(OptionAt(v, pos)))) = lit

\* C3: a cart submission holds the bundle product's variant only when the
\* variant being added, its first item, has an option value "Black" and an
\* option value "Medium" itself.
C3_JacketOnlyWithBlackMediumVariant ==
    \A f \in Slots :
        (\E k \in 1..Len(flows[f].items) : flows[f].items[k].id = JacketVariantId)
        => /\ HasOptionValue(Val(flows[f].variantAtSubmit), BlackLit)
           /\ HasOptionValue(Val(flows[f].variantAtSubmit), MediumLit)

PostFailures == {"non2xx", "throw"}

\* the step in which POST /cart/add.js of flow f fails
CartAddFails(f) ==
    /\ flows[f].post = "pending"
    /\ flows'[f].post \in PostFailures \/ flows'[f].pc = "idle"

\* the step in which the handler of flow f, whose POST failed, hands the
\* submit control back: the error timer, or the catch clause itself
ControlHandedBack(f) ==
    \/ /\ flows[f].pc = "timer"
       /\ flows[f].post \in PostFailures
       /\ flows'[f].pc = "idle"
    \/ /\ flows[f].post = "pending"
       /\ flows'[f].pc = "idle"

\* C4: a failed cart-add leaves popup visibility, Product, Selection state and
\* Selected variant as they were, is followed by no GET /cart.js and no
\* cart-update event of that flow, and when its handler hands the submit
\* control back the control is enabled and shows the label it had when the
\* form was submitted.
C4_FailedAddRestoresControl ==
    [][\A f \in Slots :
          /\ CartAddFails(f) =>
                /\ shown' = shown
                /\ currentProduct' = currentProduct
                /\ selections' = selections
                /\ selectedVariant' = selectedVariant
          /\ (CartAddFails(f) \/ flows[f].post \in PostFailures) =>
                /\ flows'[f].cart = "none"
                /\ flows'[f].events = 0
          /\ ControlHandedBack(f) =>
                /\ ~atcDisabled'
                /\ atcLabel' = flows[f].labelAtSubmit]_vars

\* C5: right after openPopup has shown the loading state and issued its
\* fetch, Product is unset, Selection state is empty and Selected variant is
\* unset.
C5_OpenClearsState ==
    lastEvent.op = "open" =>
        /\ currentProduct = Null
        /\ selections = EmptySel
        /\ selectedVariant = Null

\* C6: right after the product fetch of an openPopup failed, the title shows
\* the fixed error message, Product and Selected variant are unset and
\* Selection state is empty, so that handleAddToCart would return before any
\* request.
C6_FailedLoadLeavesNothing ==
    lastEvent.op = "loadFailed" =>
        /\ title = ErrorTitle(impl)
        /\ currentProduct = Null
        /\ selectedVariant = Null
        /\ selections = EmptySel

\* C7: right after closePopup, called by the user or by the timer of a
\* successful add, the popup is hidden, Product is unset, Selection state is
\* empty and Selected variant is unset, whatever is still in flight.
C7_CloseResets ==
    lastEvent.op \in {"close", "successTimer"} =>
        /\ ~shown
        /\ currentProduct = Null
        /\ selections = EmptySel
        /\ selectedVariant = Null

\* C7 witness: the popup was opened and closed at once, the product fetch
\* still in flight.
C7_Witness ==
    /\ lastEvent.op = "close"
    /\ userEvents = 2
    /\ Len(fetches) = 1
    /\ ~shown
    /\ selections = EmptySel

\* C8: at most one network request of the widget awaits its response.
C8_OneRequestAtATime == Outstanding <= 1

\* C9: within one add-to-cart flow the POST is issued only once the bundle
\* fetch (when the bundle rule triggered) has ended, GET /cart.js is issued
\* only after the POST returned success, and the cart-update event is
\* dispatched only after GET /cart.js returned, at most once.
C9_FlowOrder ==
    \A f \in Slots :
        /\ (flows[f].post # "none" /\ BundleRuleTriggers(flows[f].selAtSubmit))
              => flows[f].jacket \in {"ok", "novariants", "non2xx", "throw"}
        /\ flows[f].jacket = "pending" => flows[f].post = "none"
        /\ flows[f].cart # "none" => flows[f].post = "ok"
        /\ flows[f].events <= 1
        /\ flows[f].events = 1 => flows[f].cart = "returned"

\* C9 witness: a flow whose bundle fetch, POST and GET /cart.js have all
\* returned and whose event has been dispatched.
C9_Witness ==
    \E f \in Slots :
        /\ flows[f].jacket = "ok"
        /\ flows[f].post = "ok"
        /\ flows[f].cart = "returned"
        /\ flows[f].events = 1

\* C10: a product fetch in flight stays in flight until its own response is
\* handled, whatever is opened or closed meanwhile (no fetch is aborted); and
\* whenever a response arrives with a product, Product becomes that product
\* and Selected variant its first variant: also when the fetch was started
\* before another one whose response has already been handled, and also when
\* closePopup ran while it was in flight.
C10_LastResponseWins ==
    [][ /\ Len(fetches') >= Len(fetches) =>
             \A k \in 1..Len(fetches) : fetches'[k].handle = fetches[k].handle
        /\ Len(fetches') < Len(fetches) =>
             /\ Len(fetches') = Len(fetches) - 1
             /\ lastEvent'.op \in {"loaded", "loadFailed"}
        /\ lastEvent'.op = "loaded" =>
             /\ currentProduct' = Some(Catalog[lastEvent'.handle])
             /\ selectedVariant' = Some(Catalog[lastEvent'.handle].variants[1])
      ]_vars

\* C10 witness: "tee" was opened first and "cap" second, the response for
\* "cap" came first, the popup was closed, and the late response for "tee"
\* has populated Product and Selected variant.
C10_Witness ==
    /\ lastEvent.op = "loaded"
    /\ lastEvent.handle = "tee"
    /\ lastEvent.overtaken
    /\ lastEvent.closed
    /\ elImg = "tee.jpg"
    /\ currentProduct = Some(Catalog["tee"])
    /\ selectedVariant = Some(Catalog["tee"].variants[1])


\* decimal notation of a number below 1000
Dec(n) ==
    IF n < 10 THEN <<Digits[n + 1]>>
    ELSE IF n < 100 THEN <<Digits[(n \div 10) + 1], Digits[(n % 10) + 1]>>
    ELSE <<Digits[(n \div 100) + 1], Digits[((n \div 10) % 10) + 1],
           Digits[(n % 10) + 1]>>

\* three digits of a number below 1000, leading zeros kept
Pad3(n) ==
    <<Digits[(n \div 100) + 1], Digits[((n \div 10) % 10) + 1],
      Digits[(n % 10) + 1]>>

\* a whole number in groups of three digits with sep between the groups
RECURSIVE Grouped(_, _)
Grouped(n, sep) ==
    IF n < 1000 THEN Dec(n)
    ELSE Grouped(n \div 1000, sep) \o sep \o Pad3(n % 1000)

\* amount / 100 with two decimals
TwoDecimals(amount, thousands, decimal) ==
    Grouped(amount \div 100, thousands) \o decimal
    \o <<Digits[((amount % 100) \div 10) + 1], Digits[(amount % 10) + 1]>>

\* amount / 100 rounded to a whole number
NoDecimals(amount, thousands) ==
    Grouped((amount + 50) \div 100, thousands)

\* amount / 100 as each mode renders it
Rendered(key, amount) ==
    CASE key = KeyAmount -> TwoDecimals(amount, <<",">>, <<".">>)
      [] key = KeyAmountNoDecimals -> NoDecimals(amount, <<",">>)
      [] key = KeyAmountWithCommaSeparator -> TwoDecimals(amount, <<".">>, <<",">>)
      [] key = KeyAmountNoDecimalsWithCommaSeparator -> NoDecimals(amount, <<".">>)
      [] key = KeyAmountNoDecimalsWithSpaceSeparator -> NoDecimals(amount, <<" ">>)

\* formatMoney has been called
Formatted == lastEvent.op \in {"formatMoney", "formatMoneyThrew"}

\* C11: formatMoney, called with an amount and a template whose placeholder
\* names one of the five modes, returns the template with the placeholder
\* replaced by the amount divided by 100 rendered as the mode says; 123456
\* under "${{amount}}" gives "$1,234.56", 100 under "{{amount_no_decimals}}"
\* gives "1" and 100050 under "{{amount_with_comma_separator}}" gives
\* "1.000,50".
C11_FormatMoneyModes ==
    Formatted =>
        LET amount == Val(currentProduct).price
        IN  /\ \A t \in MoneyTemplates :
                  ( /\ TemplateText(t) = Val(moneyFormat)
                    /\ t.key # Null
                    /\ Val(t.key) # KeyUnknown )
                  => /\ lastEvent.op = "formatMoney"
                     /\ elPrice = t.prefix \o Rendered(Val(t.key), amount) \o t.suffix
            /\ (amount = 123456 /\ Val(moneyFormat) = DefaultMoneyFormat)
                  => elPrice = <<"$","1",",","2","3","4",".","5","6">>
            /\ (amount = 100 /\ Val(moneyFormat) = <<"{","{">> \o KeyAmountNoDecimals \o <<"}","}">>)
                  => elPrice = <<"1">>
            /\ (amount = 100050 /\ Val(moneyFormat) = <<"{","{">> \o KeyAmountWithCommaSeparator \o <<"}","}">>)
                  => elPrice = <<"1",".","0","0","0",",","5","0">>

\* C12: formatMoney, called with a template whose placeholder names an
\* unknown mode or with a template without placeholder, does not throw; with
\* the unknown mode it returns the template with the placeholder replaced by
\* the amount with two decimals and comma thousands.
C12_FormatMoneyDefaultMode ==
    Formatted =>
        \A t \in MoneyTemplates :
            ( /\ TemplateText(t) = Val(moneyFormat)
              /\ (t.key = Null \/ t.key = Some(KeyUnknown)) )
            => /\ lastEvent.op = "formatMoney"
               /\ t.key # Null =>
                    elPrice = t.prefix
                              \o TwoDecimals(Val(currentProduct).price, <<",">>, <<".">>)
                              \o t.suffix

\* C13: right after a product whose options are <<"Title">> has been loaded
\* and populated, no option picker is displayed and Selection state is empty.
C13_TitleOnlyProductHasNoPickers ==
    \A h \in Handles :
        ( /\ Catalog[h].options = <<"Title">>
          /\ lastEvent.op = "loaded"
          /\ lastEvent.handle = h )
        => /\ pickers = {}
           /\ selections = EmptySel

\* C14: at every step of a script of user events and network responses,
\* the class implementation shows the Product, Selection state, Selected
\* variant, price and requests (with their items) that the closure
\* implementation showed at that step.
C14_ImplementationsAgree ==
    (replay.phase = "replay" /\ replay.pos > 0)
        => Observed = replay.script[replay.pos].seen

\* some variant of the product agrees with the selection state
SomeVariantAgrees(product, sel) ==
    \E i \in 1..Len(product.variants) :
        AgreesWithSelections(product, sel, product.variants[i])

\* C15: whenever Selected variant is set, Product is set and either Selected
\* variant agrees with Selection state at the position of every option of
\* Product that has a selection, or no variant of Product does; and right
\* after a product has been loaded and populated, Selected variant is its
\* first variant and Selection state holds the first distinct value of every
\* option that got pickers.
C15_SelectedVariantAgreesWithSelections ==
    /\ selectedVariant # Null =>
          /\ currentProduct # Null
          /\ \/ AgreesWithSelections(Val(currentProduct), selections, Val(selectedVariant))
             \/ ~SomeVariantAgrees(Val(currentProduct), selections)
    /\ lastEvent.op = "loaded" =>
          LET product == Catalog[lastEvent.handle]
          IN  /\ selectedVariant = Some(product.variants[1])
              /\ \A pos \in 1..Len(product.options) :
                    (\E val \in PickerValues : <<product.options[pos], val>> \in pickers)
                    => /\ product.options[pos] \in DOMAIN selections
                       /\ \E i \in 1..Len(product.variants) :
                             /\ OptionAt(product.variants[i], pos)
                                   = Some(selections[product.options[pos]])
                             /\ \A j \in 1..(i - 1) :
                                   OptionAt(product.variants[j], pos) = Null

\* C15 witness: on the tee, the pick of Size = Medium has moved Selected
\* variant from White/Small to White/Medium, the third variant.
C15_Witness ==
    /\ lastEvent.op = "pick"
    /\ currentProduct = Some(Catalog["tee"])
    /\ selections = [n \in {"Color", "Size"} |->
                        IF n = "Color" THEN VWhite ELSE VMedium]
    /\ selectedVariant = Some(Catalog["tee"].variants[3])

\* the step is a pick after which Product is set and no variant agrees with
\* the selection state
PickWithoutMatch ==
    /\ lastEvent'.op = "pick"
    /\ currentProduct' # Null
    /\ ~SomeVariantAgrees(Val(currentProduct'), selections')

\* C16: a pick after which no variant agrees with the selection state
\* changes Selection state only: Selected variant, the variant-id field, the
\* price and the image stay as they were, like everything else; and every
\* handleAddToCart submits the id of Selected variant as its first item.
C16_PickWithoutMatchKeepsVariant ==
    [][ /\ PickWithoutMatch =>
             /\ UNCHANGED <<selectedVariant, elVarId, elPrice, elImg,
                            currentProduct, shown, title, pickers,
                            atcDisabled, atcLabel, fetches, flows, timers>>
        /\ lastEvent'.op = "submit" =>
             \E f \in Slots :
                /\ flows[f].pc = "idle"
                /\ flows'[f].pc # "idle"
                /\ flows'[f].items[1] = [id |-> Val(selectedVariant).id, quantity |-> 1]
                /\ elVarId = Val(selectedVariant).id
      ]_vars

\* C16 witness: on the cap, the pick of Color = " BLACK" matched no variant,
\* and the submit that followed has put the retained variant 21 first.
C16_Witness ==
    \E f \in Slots :
        /\ lastEvent.op = "submit"
        /\ currentProduct = Some(Catalog["cap"])
        /\ selections["Color"] = VBlackPad
        /\ ~SomeVariantAgrees(Catalog["cap"], selections)
        /\ selectedVariant = Some(Catalog["cap"].variants[1])
        /\ flows[f].pc # "idle"
        /\ flows[f].items[1].id = 21

\* C17: every option name in Selection state is an option of Product, and
\* Selection state is empty while Product is unset.
C17_SelectionsBelongToProduct ==
    /\ currentProduct = Null => selections = EmptySel
    /\ currentProduct # Null =>
          \A n \in DOMAIN selections :
              \E pos \in 1..Len(Val(currentProduct).options) :
                  Val(currentProduct).options[pos] = n

\* C18: while the popup is hidden, Product is unset, Selection state is empty
\* and Selected variant is unset; and a hidden popup becomes shown only by a
\* hotspot click.
C18_HiddenPopupIsEmpty ==
    [][ /\ ~shown' =>
             /\ currentProduct' = Null
             /\ selections' = EmptySel
             /\ selectedVariant' = Null
        /\ (~shown /\ shown') => lastEvent'.op = "open"
      ]_vars

\* C19: right after a pick that resolved to a variant, the image shown is the
\* variant's own featured image when it has one, be it a URL or an object
\* holding the URL, and the featured image of Product otherwise.
C19_ImageFollowsVariant ==
    ( /\ lastEvent.op = "pick"
      /\ currentProduct # Null
      /\ Val(currentProduct).featured_image # Null
      /\ SomeVariantAgrees(Val(currentProduct), selections) )
    => elImg = IF Val(selectedVariant).featured_image # Null
               THEN Val(Val(selectedVariant).featured_image).url
               ELSE Val(Val(currentProduct).featured_image)

\* the step just taken is the one of a handleAddToCart that disables the
\* submit control: the closure implementation does so once the bundle rule
\* is settled, the class implementation at the submit
JustDisabled ==
    \/ lastEvent.op = "submit" /\ atcDisabled
    \/ lastEvent.op = "jacket" /\ impl = "closure"

\* C20: whenever a handleAddToCart has disabled the submit control, a state
\* follows in which the control is enabled and shows the label of the page's
\* markup.
C20_ControlComesBack ==
    JustDisabled ~> (~atcDisabled /\ atcLabel = OrigLabel)

\* formatMoney of the implementation that runs, applied to a variant's price
PriceText(variant) ==
    IF impl = "closure" THEN FormatMoneyTable[variant.price, moneyFormat].text
    ELSE FormatMoneyClassTable[variant.price, moneyFormat].text

\* C21: right after a product has been loaded into the shown popup and after
\* every pick, when Selected variant is set, the price slot holds the
\* formatted price of Selected variant.
C21_PriceOfSelectedVariant ==
    ( /\ lastEvent.op \in {"loaded", "pick"}
      /\ shown
      /\ currentProduct # Null
      /\ selectedVariant # Null
      /\ title = Val(currentProduct).title )
    => elPrice = PriceText(Val(selectedVariant))

\* the add-to-cart flow was submitted from a popup showing `product`
SubmittedFrom(flow, product) ==
    \E k \in 1..Len(product.variants) :
        product.variants[k].id = Val(flow.variantAtSubmit).id

\* C22: when the timer of a successful add-to-cart fires while the popup
\* shows, populated, a product other than the one the add was submitted
\* from, the popup stays shown and its Product, Selection state and Selected
\* variant stay as they are.
C22_DelayedCloseSparesNewPopup ==
    [][ \A i \in 1..Len(timers) :
          ( /\ lastEvent'.op = "successTimer"
            /\ timers[i].kind = "ok"
            /\ TimerDue(i)
            /\ timers' = RemoveAt(timers, i)
            /\ shown
            /\ currentProduct # Null
            /\ selectedVariant # Null
            /\ title = Val(currentProduct).title
            /\ ~SubmittedFrom(flows[timers[i].flow], Val(currentProduct)) )
          => /\ shown'
             /\ UNCHANGED <<currentProduct, selections, selectedVariant>>
      ]_vars

=============================================================================
